---- MODULE Spec2Model ----
(***************************************************************************)
(* Model of src/new.py: the batch normalisation and trend classification   *)
(* engine of the stock review application.                                 *)
(*                                                                         *)
(* Numbers.  A float of a series is an integer scaled by Scale (so that    *)
(* the trailing means over 1..MaDays elements are exact), or Inf for the   *)
(* float +inf.  slope_perc is a fraction <<p, q>> with q > 0, or NaN.      *)
(* slope_threshold is held in tenths of a percent (the slider's step).     *)
(***************************************************************************)
EXTENDS Integers, Sequences, FiniteSets, TLC

\* ------------------------------------------------------------------ bounds
MaxPriceCols == 3
MaxMaCols == 2
MaxCloseDays == 3
MaxSynthCols == 6
MaxDateCols == 2
MaxFiles == 2
MaxTotalRows == 2
MaxHistoryRows == 3
MaxArrowCells == 2
MaxPasses == 2
MaxGridCols == 3
MaxHeaderRows == 2
MaxSkipRows == 1
MaxNameParts == 3

\* ------------------------------------------------------- program constants
MaDays == 5
MinCloseDays == 2

\* ------------------------------------------------------- number encoding
\* lcm of the window sizes 1..MaDays of the synthesized mean
Scale == 3 * 4 * 5
Inf == Scale * 1000000
NaN == <<0, 0>>

isnan(s) == s[2] = 0

\* s < t / 10 for a defined fraction s = <<p, q>>, q > 0
FracLess(s, t) == s[1] * 10 < t * s[2]

Min(a, b) == IF a < b THEN a ELSE b
Max(a, b) == IF a > b THEN a ELSE b

RECURSIVE SumSeq(_)
SumSeq(s) == IF s = <<>> THEN 0 ELSE Head(s) + SumSeq(Tail(s))

HasInf(s) == \E i \in 1..Len(s) : s[i] >= Inf

\* s[::-1]
Reverse(s) == [i \in 1..Len(s) |-> s[Len(s) + 1 - i]]

\* s[-n:]
LastN(s, n) == SubSeq(s, Len(s) - n + 1, Len(s))

\* np.mean of a non-empty array
Mean(s) == IF HasInf(s) THEN Inf ELSE SumSeq(s) \div Len(s)

\* ------------------------------------------------------------------ cells
\* A cell as row.get(c) returns it: missing, a float, or a text.
NA == [k |-> "nan", v |-> 0, s |-> <<>>]
Num(n) == [k |-> "num", v |-> n, s |-> <<>>]
InfCell == [k |-> "inf", v |-> 0, s |-> <<>>]
Txt(t) == [k |-> "str", v |-> 0, s |-> t]

Digits == {"0", "1", "2"}
DigitVal(ch) == CASE ch = "0" -> 0 [] ch = "1" -> 1 [] ch = "2" -> 2 [] OTHER -> 0

\* str.replace(ch, '') for a one-character pattern
RECURSIVE RemoveChar(_, _)
RemoveChar(s, ch) ==
    IF s = <<>> THEN <<>>
    ELSE IF Head(s) = ch THEN RemoveChar(Tail(s), ch)
    ELSE <<Head(s)>> \o RemoveChar(Tail(s), ch)

\* str.replace('--', ''): non-overlapping pairs, left to right
RECURSIVE RemoveDashDash(_)
RemoveDashDash(s) ==
    IF Len(s) < 2 THEN s
    ELSE IF s[1] = "-" /\ s[2] = "-" THEN RemoveDashDash(SubSeq(s, 3, Len(s)))
    ELSE <<Head(s)>> \o RemoveDashDash(Tail(s))

RECURSIVE LStrip(_)
LStrip(s) == IF s # <<>> /\ Head(s) = " " THEN LStrip(Tail(s)) ELSE s

Strip(s) == Reverse(LStrip(Reverse(LStrip(s))))

\* str(val).replace(',', '').replace(EM DASH, '').replace('--', '').strip()
\* (the character "E" stands for the em dash U+2014)
CleanStr(s) == Strip(RemoveDashDash(RemoveChar(RemoveChar(s, ","), "E")))

RECURSIVE DecVal(_)
DecVal(s) == IF s = <<>> THEN 0 ELSE 10 * DecVal(SubSeq(s, 1, Len(s) - 1)) + DigitVal(s[Len(s)])

AllDigits(s) == s # <<>> /\ \A i \in 1..Len(s) : s[i] \in Digits

\* float(val_str) for a text: [ok, v], v unscaled; ok = FALSE is ValueError
ParseFloat(s) ==
    IF AllDigits(s) THEN [ok |-> TRUE, v |-> DecVal(s)]
    ELSE IF s # <<>> /\ Head(s) = "-" /\ AllDigits(Tail(s)) THEN [ok |-> TRUE, v |-> 0 - DecVal(Tail(s))]
    ELSE [ok |-> FALSE, v |-> 0]

\* lines 487-497: the float one cell contributes, as a sequence of zero or
\* one scaled value
CellValueSigned(c) ==
    CASE c.k = "nan" -> <<>>
      [] c.k = "inf" -> <<Inf>>
      [] c.k = "num" -> <<Scale * c.v>>
      [] OTHER -> LET val_str == CleanStr(c.s)
                      p == ParseFloat(val_str)
                  IN IF val_str # <<>> /\ p.ok THEN <<Scale * p.v>> ELSE <<>>

CellValue(c) ==
    CASE c.k = "nan" -> <<>>
      [] c.k = "inf" -> <<Inf>>
      [] c.k = "num" -> IF c.v > 0 THEN <<Scale * c.v>> ELSE <<>>
      [] OTHER -> LET val_str == CleanStr(c.s)
                      p == ParseFloat(val_str)
                  IN IF val_str # <<>> /\ p.ok /\ p.v > 0 THEN <<Scale * p.v>> ELSE <<>>

\* the loop over the columns, left to right
RECURSIVE Collect(_)
Collect(cells) == IF cells = <<>> THEN <<>> ELSE CellValue(Head(cells)) \o Collect(Tail(cells))

ExtractNoReverse(cells) == Collect(cells)

\* closes = closes[::-1] after the loop
Extract(cells) == Reverse(Collect(cells))

\* ------------------------------------------------ synthesized moving average
\* np.array([np.mean(closes[max(0, i-ma_days+1):i+1]) for i in range(len(closes))])
\* (0-based i of the source is i - 1 here)
SynthWindowLeading(cl, i) ==
    LET ma_days == Min(MaDays, Len(cl))
    IN SubSeq(cl, i, Min(Len(cl), i + ma_days - 1))

SynthWindow(cl, i) ==
    LET ma_days == Min(MaDays, Len(cl))
    IN SubSeq(cl, Max(0, (i - 1) - ma_days + 1) + 1, i)

SynthCumulative(cl) == [i \in 1..Len(cl) |-> Mean(SubSeq(cl, 1, i))]

SynthMA(cl) == [i \in 1..Len(cl) |-> Mean(SynthWindow(cl, i))]

\* ma_values of a row: extracted when the batch has ma_cols, else synthesized
MaSeries(ma_cells, cl) == IF ma_cells # <<>> THEN Extract(ma_cells) ELSE SynthMA(cl)

\* ------------------------------------------------------------- up_details
\* The texts the code builds, kept by what they say.
InsufficientSwapped(got, got_ma, need) ==
    [kind |-> "insufficient", got |-> need, got_ma |-> got_ma, need |-> got, flags |-> <<>>, slope |-> NaN]
Insufficient(got, got_ma, need) ==
    [kind |-> "insufficient", got |-> got, got_ma |-> got_ma, need |-> need, flags |-> <<>>, slope |-> NaN]
InvalidPrice ==
    [kind |-> "invalid_price", got |-> 0, got_ma |-> 0, need |-> 0, flags |-> <<>>, slope |-> NaN]
Trace(flags) ==
    [kind |-> "trace", got |-> 0, got_ma |-> 0, need |-> 0, flags |-> flags, slope |-> NaN]
SlopeTooSmall(sl) ==
    [kind |-> "slope_small", got |-> 0, got_ma |-> 0, need |-> 0, flags |-> <<>>, slope |-> sl]

\* ------------------------------------------------------------- predicates
StrictNonStrict(cl, cd) ==
    IF Len(cl) < cd THEN [is_up |-> FALSE, details |-> Insufficient(Len(cl), -1, cd)]
    ELSE IF \E i \in 1..Len(cl) : cl[i] <= 0 THEN [is_up |-> FALSE, details |-> InvalidPrice]
    ELSE [is_up |-> \A i \in 2..Len(cl) : cl[i] >= cl[i-1],
          details |-> Trace([i \in 1..(Len(cl) - 1) |-> cl[i+1] > cl[i]])]

check_strict_continuous_up(cl, cd) ==
    IF Len(cl) < cd THEN [is_up |-> FALSE, details |-> Insufficient(Len(cl), -1, cd)]
    ELSE IF \E i \in 1..Len(cl) : cl[i] <= 0 THEN [is_up |-> FALSE, details |-> InvalidPrice]
    ELSE [is_up |-> \A i \in 2..Len(cl) : cl[i] > cl[i-1],
          details |-> Trace([i \in 1..(Len(cl) - 1) |-> cl[i+1] > cl[i]])]

MaAboveStrict(cl, ma, cd) ==
    IF Len(cl) < cd \/ Len(ma) < cd
    THEN [is_up |-> FALSE, details |-> Insufficient(Len(cl), Len(ma), cd)]
    ELSE IF \E i \in 1..Len(cl) : cl[i] <= 0 THEN [is_up |-> FALSE, details |-> InvalidPrice]
    ELSE [is_up |-> \A i \in 1..Len(cl) : cl[i] > ma[i],
          details |-> Trace([i \in 1..Len(cl) |-> cl[i] >= ma[i]])]

check_ma_above_continuous_up(cl, ma, cd) ==
    IF Len(cl) < cd \/ Len(ma) < cd
    THEN [is_up |-> FALSE, details |-> Insufficient(Len(cl), Len(ma), cd)]
    ELSE IF \E i \in 1..Len(cl) : cl[i] <= 0 THEN [is_up |-> FALSE, details |-> InvalidPrice]
    ELSE [is_up |-> \A i \in 1..Len(cl) : cl[i] >= ma[i],
          details |-> Trace([i \in 1..Len(cl) |-> cl[i] >= ma[i]])]

\* ------------------------------------------------------------------ slope
\* slope, _ = np.polyfit(x, closes_for_check, 1); slope / mean * 100, as the
\* fraction 100 * n * (n Sxy - Sx Sy) / ((n Sxx - Sx Sx) * Sy).  A window
\* holding +inf makes the fit raise or the quotient inf/inf: NaN either way.
SlopePerc(w) ==
    LET n == Len(w)
        y == [i \in 1..n |-> w[i] \div Scale]
        Sx == SumSeq([i \in 1..n |-> i - 1])
        Sxx == SumSeq([i \in 1..n |-> (i - 1) * (i - 1)])
        Sy == SumSeq(y)
        Sxy == SumSeq([i \in 1..n |-> (i - 1) * y[i]])
    IN IF HasInf(w) \/ n < 2 THEN NaN
       ELSE <<100 * n * (n * Sxy - Sx * Sy), (n * Sxx - Sx * Sx) * Sy>>

\* ------------------------------------------------------------ column labels
\* A resolved label is the sequence of its '_'-separated segments.  A segment
\* is a keyword text (w), a date text (fmt, date as yyyymmdd), or both glued
\* together; suffix says that " [..." follows the text.
\* Keywords: "shoupanjia" = closing price, "junxian" = moving average,
\* "5rijunxian" = 5-day moving average, "gainian" = concept,
\* "suoshugainian" = the configured concept column name.
Word(w) == [w |-> w, fmt |-> "", date |-> 0, suffix |-> FALSE]
DateSeg(fmt, d, suffix) == [w |-> "", fmt |-> fmt, date |-> d, suffix |-> suffix]
Glued(w, fmt, d) == [w |-> w, fmt |-> fmt, date |-> d, suffix |-> FALSE]

concept_col_name == <<Word("suoshugainian")>>

\* "..." in col_lower
IsPrice(label) == \E i \in 1..Len(label) : label[i].w \in {"shoupanjia", "close"}
IsMa(label) == ~IsPrice(label) /\ \E i \in 1..Len(label) : label[i].w \in {"junxian", "5rijunxian", "ma"}
HasConceptWord(label) == \E i \in 1..Len(label) : label[i].w \in {"gainian", "suoshugainian"}

\* positions (in df.columns[2:]) of the columns of a kind, left to right
IndexSeq(n) == [i \in 1..n |-> i]

close_cols(columns) == SelectSeq(IndexSeq(Len(columns)), LAMBDA i : IsPrice(columns[i]))
ma_cols(columns) == SelectSeq(IndexSeq(Len(columns)), LAMBDA i : IsMa(columns[i]))

\* ------------------------------------------------------------- batch date
BatchFormats == {"dot", "dash", "compact", "slash"}

Today == 20261102

\* date_str_raw.split(' [')[0].strip(), then strptime under the four formats:
\* the sequence of zero or one date the label yields
LabelDate(label) ==
    LET seg == label[Len(label)]
    IN IF Len(label) > 1 /\ seg.w = "" /\ seg.fmt \in BatchFormats
       THEN <<seg.date>> ELSE <<>>

RECURSIVE LabelDates(_, _)
LabelDates(columns, cols) ==
    IF cols = <<>> THEN <<>>
    ELSE LabelDate(columns[Head(cols)]) \o LabelDates(columns, Tail(cols))

RECURSIVE MaxOf(_)
MaxOf(ds) == IF Len(ds) = 1 THEN ds[1] ELSE Max(Head(ds), MaxOf(Tail(ds)))

BatchDateFirst(columns) ==
    LET dates == LabelDates(columns, close_cols(columns))
    IN IF dates # <<>> THEN [date |-> dates[1], warn |-> FALSE]
       ELSE [date |-> Today, warn |-> TRUE]

\* max(dates).strftime("%Y-%m-%d"), or today with a warning
BatchDate(columns) ==
    LET dates == LabelDates(columns, close_cols(columns))
    IN IF dates # <<>> THEN [date |-> MaxOf(dates), warn |-> FALSE]
       ELSE [date |-> Today, warn |-> TRUE]

\* ---------------------------------------------------------------- concept
Unknown == <<"?">>

RECURSIVE Decimal(_)
Decimal(n) ==
    IF n < 10 THEN <<CASE n = 0 -> "0" [] n = 1 -> "1" [] n = 2 -> "2" [] n = 3 -> "3"
                       [] n = 4 -> "4" [] n = 5 -> "5" [] n = 6 -> "6" [] n = 7 -> "7"
                       [] n = 8 -> "8" [] OTHER -> "9">>
    ELSE Decimal(n \div 10) \o Decimal(n % 10)

\* str(concept_val).strip() of a non-missing cell
CellStr(c) ==
    CASE c.k = "str" -> Strip(c.s)
      [] c.k = "inf" -> <<"i", "n", "f">>
      [] OTHER -> (IF c.v < 0 THEN <<"-">> \o Decimal(0 - c.v) ELSE Decimal(c.v)) \o <<".", "0">>

\* lines 468-479: the configured column if the batch has it, else the first
\* column whose label contains the concept keyword, else "unknown"
RowConcept(columns, cells) ==
    LET named == SelectSeq(IndexSeq(Len(columns)), LAMBDA i : columns[i] = concept_col_name)
        keyed == SelectSeq(IndexSeq(Len(columns)), LAMBDA i : HasConceptWord(columns[i]))
        pos == IF named # <<>> THEN named ELSE keyed
    IN IF pos = <<>> THEN Unknown
       ELSE IF cells[pos[1]].k = "nan" THEN Unknown
       ELSE CellStr(cells[pos[1]])

\* cells of a row at the given column positions
Pick(cells, cols) == [i \in 1..Len(cols) |-> cells[cols[i]]]

\* -------------------------------------------------------------- windowing
\* lines 523-545: the evaluation window, the predicate of the mode, the slope
Windowing(cl, ma, mode, cd) ==
    IF Len(cl) < cd \/ Len(ma) < cd
    THEN [closes_for_check |-> cl, ma_for_check |-> ma, is_up |-> FALSE,
          slope_perc |-> NaN, up_details |-> Insufficient(Len(cl), -1, cd)]
    ELSE LET cfc == LastN(cl, cd)
             mfc == LastN(ma, cd)
             r == IF mode = "strict" THEN check_strict_continuous_up(cfc, cd)
                  ELSE check_ma_above_continuous_up(cfc, mfc, cd)
         IN [closes_for_check |-> cfc, ma_for_check |-> mfc, is_up |-> r.is_up,
             slope_perc |-> SlopePerc(cfc), up_details |-> r.details]

\* lines 547-552
ReasonsElif(up, details, sl, thr) ==
    IF ~up THEN <<details>>
    ELSE IF ~isnan(sl) /\ FracLess(sl, thr) THEN <<SlopeTooSmall(sl)>> ELSE <<>>

Reasons(up, details, sl, thr) ==
    (IF ~up THEN <<details>> ELSE <<>>)
    \o (IF ~isnan(sl) /\ FracLess(sl, thr) THEN <<SlopeTooSmall(sl)>> ELSE <<>>)

\* ------------------------------------------------------ aggregation maps
\* if code not in stock_concepts: stock_concepts[code] = concept
SetConceptAlways(sc, c, v) == [x \in DOMAIN sc \cup {c} |-> IF x = c THEN v ELSE sc[x]]

SetConcept(sc, c, v) == IF c \in DOMAIN sc THEN sc ELSE sc @@ (c :> v)

\* the list of the code is started anew on every row
AppendTrendReset(st, c, e) == [x \in DOMAIN st \cup {c} |-> IF x = c THEN <<e>> ELSE st[x]]

\* stock_trends[code].append((batch_date, passed))
AppendTrend(st, c, e) ==
    [x \in DOMAIN st \cup {c} |-> IF x = c THEN (IF c \in DOMAIN st THEN st[c] ELSE <<>>) \o <<e>> ELSE st[x]]

\* sorted(set(all_batch_dates))
RECURSIVE SortedSet(_)
SortedSet(S) ==
    IF S = {} THEN <<>>
    ELSE LET m == CHOOSE x \in S : \A y \in S : x <= y IN <<m>> \o SortedSet(S \ {m})

Range(s) == {s[i] : i \in 1..Len(s)}

\* ---------------------------------------------------------- history file
\* A frame row of the history is [date, code, slope]: date is the yyyymmdd
\* number of its "%Y-%m-%d" text, code and slope are cells.  A row of the
\* CSV file holds the texts of the three.
NoFile == [exists |-> FALSE, rows |-> <<>>]
CsvFile(rows) == [exists |-> TRUE, rows |-> rows]

\* the texts pandas.read_csv takes for a missing value (a part of its default
\* na_values: '', 'nan', 'NaN', 'null', 'NA', 'N/A')
NaTokens == {<<>>, <<"n", "a", "n">>, <<"N", "a", "N">>, <<"n", "u", "l", "l">>,
             <<"N", "A">>, <<"N", "/", "A">>}

\* DataFrame.to_csv of one cell: a missing value is the empty text, a float
\* its repr, a text itself
ToCsv(c) ==
    CASE c.k = "nan" -> <<>>
      [] c.k = "str" -> c.s
      [] OTHER -> Decimal(c.v) \o <<".", "0">>

\* pd.read_csv(..., dtype=str) of one field
ReadCsvStr(t) == IF t \in NaTokens THEN NA ELSE Txt(t)

\* pd.to_numeric(..., errors='coerce') of one cell
ToNumeric(c) ==
    IF c.k # "str" THEN c
    ELSE IF Len(c.s) > 2 /\ SubSeq(c.s, Len(c.s) - 1, Len(c.s)) = <<".", "0">>
            /\ AllDigits(SubSeq(c.s, 1, Len(c.s) - 2))
         THEN Num(DecVal(SubSeq(c.s, 1, Len(c.s) - 2)))
    ELSE IF ParseFloat(c.s).ok THEN Num(ParseFloat(c.s).v)
    ELSE NA

ToCsvRow(r) == [date |-> r.date, code |-> ToCsv(r.code), slope |-> ToCsv(r.slope)]
ReadCsvRow(r) == [date |-> r.date, code |-> ReadCsvStr(r.code), slope |-> ReadCsvStr(r.slope)]

\* the subset=['date', 'code'] of drop_duplicates
SameKey(a, b) == a.date = b.date /\ a.code = b.code

\* combined.drop_duplicates(subset=[...], keep='last'), with the index
DropDuplicatesKeepLast(rows) ==
    SelectSeq([i \in 1..Len(rows) |-> [i |-> i, r |-> rows[i]]],
              LAMBDA x : \A j \in (x.i + 1)..Len(rows) : ~SameKey(rows[j], x.r))

Rows(indexed) == [i \in 1..Len(indexed) |-> indexed[i].r]

\* lines 140-162: the file written and the frame returned
append_history_batch(result_df, file) ==
    LET df_to_save == result_df
        existing == [i \in 1..Len(file.rows) |-> ReadCsvRow(file.rows[i])]
        combined == Rows(DropDuplicatesKeepLast(existing \o df_to_save))
        frame == IF file.exists THEN combined ELSE df_to_save
    IN [file |-> CsvFile([i \in 1..Len(frame) |-> ToCsvRow(frame[i])]),
        history_df |-> [i \in 1..Len(frame) |->
                           [frame[i] EXCEPT !.slope = ToNumeric(frame[i].slope)]]]

\* ------------------------------------------------------------- sanitizer
\* A frame of make_arrow_safe is a sequence of columns [hint, cells]: hint
\* says that the label holds one of the numeric_hint keywords.
\* ("kongzhi" and "wu" stand for the two Chinese null markers.)
NullMarkers ==
    {<<"-">>, <<"-", "-">>, <<"E">>, <<"kongzhi">>, <<"n", "u", "l", "l">>,
     <<"N", "o", "n", "e">>, <<>>, <<"N", "a", "N">>, <<"n", "a", "n">>, <<"wu">>}

\* df.replace([...], np.nan): a whole-cell match
ReplaceMarkers(c) == IF c.k = "str" /\ c.s \in NullMarkers THEN NA ELSE c

\* str(x) of a cell, as astype(str) gives it
AsStr(c) ==
    CASE c.k = "nan" -> <<"n", "a", "n">>
      [] c.k = "str" -> c.s
      [] c.k = "inf" -> <<"i", "n", "f">>
      [] OTHER -> Decimal(c.v) \o <<".", "0">>

\* replace({'nan': np.nan, 'None': np.nan}) of a text
NanOrNone(t) == IF t \in {<<"n", "a", "n">>, <<"N", "o", "n", "e">>} THEN NA ELSE Txt(t)
OnlyNan(t) == IF t = <<"n", "a", "n">> THEN NA ELSE Txt(t)

HasText(cells) == \E i \in 1..Len(cells) : cells[i].k = "str"

\* the column is of dtype object after line 84: it held a text, and replace
\* did not turn it into a float column (replace downcasts in some pandas)
ObjectAfterReplace(before, after, downcasts) ==
    IF downcasts THEN HasText(after) ELSE HasText(before)

\* lines 82-102 on one column
SafeColumn(col, downcasts) ==
    LET replaced == [i \in 1..Len(col.cells) |-> ReplaceMarkers(col.cells[i])]
        object == ObjectAfterReplace(col.cells, replaced, downcasts)
        texts == IF object THEN [i \in 1..Len(replaced) |-> NanOrNone(Strip(AsStr(replaced[i])))]
                 ELSE replaced
        numeric == IF col.hint THEN [i \in 1..Len(texts) |-> ToNumeric(texts[i])] ELSE texts
        final == IF HasText(numeric) THEN [i \in 1..Len(numeric) |-> OnlyNan(AsStr(numeric[i]))]
                 ELSE numeric
    IN [hint |-> col.hint, cells |-> final]

make_arrow_safe(frame, downcasts) == [i \in 1..Len(frame) |-> SafeColumn(frame[i], downcasts)]

\* ---------------------------------------------------------- header reader
\* A cell of the raw grid: blank, a number, or a text.  The text is given as
\* the label it reads as (its '_'-separated segments); pad says that blanks
\* surround it.  A text of blanks only has no segment.
GNA == [k |-> "nan", text |-> <<>>, pad |-> FALSE, v |-> 0]
GNum(n) == [k |-> "num", text |-> <<>>, pad |-> FALSE, v |-> n]
GText(t, pad) == [k |-> "str", text |-> t, pad |-> pad, v |-> 0]

EmptySeg == Word("")
NumberSeg(n) == [w |-> "", fmt |-> "number", date |-> n, suffix |-> FALSE]

\* str(x).strip() of a cell
StrStrip(c) ==
    CASE c.k = "nan" -> <<Word("nan")>>
      [] c.k = "num" -> <<NumberSeg(c.v)>>
      [] OTHER -> c.text

\* pandas names a blank header cell "Unnamed: i" and numbers a repeated name
\* "name.k"
Unnamed(i) == <<[w |-> "Unnamed", fmt |-> "", date |-> i, suffix |-> FALSE]>>
Mangle(t, n) ==
    IF t = <<>> THEN <<[w |-> "", fmt |-> "mangled", date |-> n, suffix |-> FALSE]>>
    ELSE SubSeq(t, 1, Len(t) - 1)
         \o <<[t[Len(t)] EXCEPT !.fmt = "mangled", !.date = t[Len(t)].date * 10 + n]>>

\* the cells before position j that repeat the cell at j
Earlier(row, j) == Cardinality({i \in 1..(j - 1) : row[i] = row[j]})

\* pd.read_excel(header=0): the labels made of the header row, then line 360
HeaderLabels(row) ==
    [j \in 1..Len(row) |->
        IF row[j].k = "nan" THEN Unnamed(j - 1)
        ELSE IF Earlier(row, j) > 0 THEN Mangle(StrStrip(row[j]), Earlier(row, j))
        ELSE StrStrip(row[j])]

\* the header is read before the rows are skipped
ReadSingleHeaderFirst(grid, skip) ==
    IF grid = <<>> THEN [columns |-> <<>>, rows |-> <<>>]
    ELSE [columns |-> HeaderLabels(grid[1]),
          rows |-> SubSeq(grid, skip + 2, Len(grid))]

\* lines 359-360: skiprows rows are dropped, the next row is the header
ReadSingle(grid, skip) ==
    IF Len(grid) <= skip THEN [columns |-> <<>>, rows |-> <<>>]
    ELSE [columns |-> HeaderLabels(grid[skip + 1]),
          rows |-> SubSeq(grid, skip + 2, Len(grid))]

\* no forward fill
NoFFill(row) == row

\* DataFrame.ffill(axis=1) on one row
RECURSIVE FFill(_)
FFill(row) ==
    IF Len(row) <= 1 THEN row
    ELSE LET left == FFill(SubSeq(row, 1, Len(row) - 1))
             last == row[Len(row)]
         IN Append(left, IF last.k = "nan" THEN left[Len(left)] ELSE last)

\* line 364: header_df
HeaderDf(grid, hr) == [i \in 1..Min(hr, Len(grid)) |-> FFill(grid[i])]

\* line 369: the values of column j of the header, top to bottom, blank
\* ones left out
ColStrs(header_df, j) ==
    LET present == SelectSeq(IndexSeq(Len(header_df)), LAMBDA i : header_df[i][j].k # "nan")
    IN [n \in 1..Len(present) |-> StrStrip(header_df[present[n]][j])]

HasWord(t, ws) == \E i \in 1..Len(t) : t[i].w \in ws

\* lines 373-376: the running prefix after a column
NextPrefix(prefix, col_strs) ==
    IF HasWord(col_strs[1], {"shoupanjia"}) THEN "shoupanjia"
    ELSE IF HasWord(col_strs[1], {"5rijunxian", "junxian"}) THEN "5rijunxian"
    ELSE prefix

\* "_".join(col_strs).strip("_")
RECURSIVE JoinSegs(_)
JoinSegs(col_strs) ==
    IF col_strs = <<>> THEN <<>>
    ELSE (IF Head(col_strs) = <<>> THEN <<EmptySeg>> ELSE Head(col_strs)) \o JoinSegs(Tail(col_strs))

RECURSIVE LStripSegs(_)
LStripSegs(t) == IF t # <<>> /\ Head(t) = EmptySeg THEN LStripSegs(Tail(t)) ELSE t

StripSegs(t) == Reverse(LStripSegs(Reverse(LStripSegs(t))))

\* lines 377-382
Merged(prefix, col_strs) ==
    LET date_part == IF Len(col_strs) > 1 THEN col_strs[Len(col_strs)] ELSE col_strs[1]
    IN IF prefix # "" /\ HasWord(col_strs[1], {"undefined"})
       THEN <<Word(prefix)>> \o date_part
       ELSE StripSegs(JoinSegs(col_strs))

\* lines 366-383: the loop over the columns of the header, from column j on
RECURSIVE BuildColumns(_, _, _)
BuildColumns(header_df, j, current_prefix) ==
    IF header_df = <<>> \/ j > Len(header_df[1]) THEN <<>>
    ELSE LET col_strs == ColStrs(header_df, j)
         IN IF col_strs = <<>> THEN <<<<>>>> \o BuildColumns(header_df, j + 1, current_prefix)
            ELSE LET p == NextPrefix(current_prefix, col_strs)
                 IN <<Merged(p, col_strs)>> \o BuildColumns(header_df, j + 1, p)

\* lines 363-385
ReadMulti(grid, hr, skip) ==
    [columns |-> BuildColumns(HeaderDf(grid, hr), 1, ""),
     rows |-> SubSeq(grid, hr + skip + 1, Len(grid))]

\* lines 358-385
ReadExcel(grid, hr, skip) ==
    IF hr = 1 THEN ReadSingle(grid, skip) ELSE ReadMulti(grid, hr, skip)

\* --------------------------------------------------------- date extraction
\* A column name is a sequence of tokens: a run of n digits (v tells the runs
\* apart) or one other character ("nian", "yue", "ri" are the three Chinese
\* date characters, "x" any other character).  No two runs are adjacent.
Dg(n, v) == [k |-> "d", n |-> n, v |-> v]
Sym(c) == [k |-> c, n |-> 0, v |-> 0]

NoDate == [found |-> FALSE, pattern |-> "", text |-> <<>>]
Found(pattern, text) == [found |-> TRUE, pattern |-> pattern, text |-> text]

\* \d{4} SEP \d{1,2} SEP \d{1,2} from token i on: the last four digits of a
\* run, a run of one or two digits between the separators, the first one or
\* two digits of a run
SepAt(name, i, sep) ==
    /\ i + 4 <= Len(name)
    /\ name[i].k = "d" /\ name[i].n >= 4
    /\ name[i + 1].k = sep
    /\ name[i + 2].k = "d" /\ name[i + 2].n <= 2
    /\ name[i + 3].k = sep
    /\ name[i + 4].k = "d"

SepText(name, i) ==
    <<Dg(4, name[i].v), name[i + 1], name[i + 2], name[i + 3],
      Dg(Min(2, name[i + 4].n), name[i + 4].v)>>

\* \d{8}
EightAt(name, i) == i <= Len(name) /\ name[i].k = "d" /\ name[i].n >= 8

\* \d{4} nian \d{1,2} yue \d{1,2} ri
CnAt(name, i) ==
    /\ i + 5 <= Len(name)
    /\ name[i].k = "d" /\ name[i].n >= 4
    /\ name[i + 1].k = "nian"
    /\ name[i + 2].k = "d" /\ name[i + 2].n <= 2
    /\ name[i + 3].k = "yue"
    /\ name[i + 4].k = "d" /\ name[i + 4].n <= 2
    /\ name[i + 5].k = "ri"

\* line 303-309: date_patterns, in order
DatePatternsDigitsFirst == <<"eight", "dot", "dash", "slash", "cn">>

DatePatterns == <<"dot", "dash", "slash", "eight", "cn">>

MatchAt(name, i, pattern) ==
    CASE pattern = "dot" -> SepAt(name, i, ".")
      [] pattern = "dash" -> SepAt(name, i, "-")
      [] pattern = "slash" -> SepAt(name, i, "/")
      [] pattern = "eight" -> EightAt(name, i)
      [] OTHER -> CnAt(name, i)

MatchText(name, i, pattern) ==
    CASE pattern = "eight" -> <<Dg(8, name[i].v)>>
      [] pattern = "cn" -> <<Dg(4, name[i].v)>> \o SubSeq(name, i + 1, i + 5)
      [] OTHER -> SepText(name, i)

\* re.search(pattern, col_str): the leftmost match, as zero or one place
Search(name, pattern) ==
    LET S == {i \in 1..Len(name) : MatchAt(name, i, pattern)}
    IN IF S = {} THEN <<>> ELSE <<CHOOSE i \in S : \A j \in S : i <= j>>

\* lines 313-316: the loop over the patterns, from pattern n on
RECURSIVE SearchFrom(_, _)
SearchFrom(name, n) ==
    IF n > Len(DatePatterns) THEN NoDate
    ELSE LET m == Search(name, DatePatterns[n])
         IN IF m # <<>> THEN Found(DatePatterns[n], MatchText(name, m[1], DatePatterns[n]))
            ELSE SearchFrom(name, n + 1)

extract_date_from_column_name(name) == SearchFrom(name, 1)

\* ------------------------------------------------------------------ state
VARIABLES up_trend_mode, close_days, slope_threshold,
          uploaded_files, file_idx, row_idx, pc,
          batch_date, all_batch_dates, daily_dfs, results, all_results,
          stock_trends, stock_concepts, warnings, errors,
          code, concept, closes, ma_values, closes_for_check, ma_for_check,
          is_up, slope_perc, up_details, reason, passed,
          pending_batches, result_df, history_file, history_df,
          arrow_df, arrow_prev, arrow_passes, replace_downcasts,
          df_raw, header_rows, skip_rows, read_columns, read_rows, read_done,
          column_name, date_match, searched

config == <<up_trend_mode, close_days, slope_threshold, uploaded_files>>
aggregate == <<all_batch_dates, daily_dfs, all_results, stock_trends, stock_concepts>>
locals == <<code, concept, closes, ma_values, closes_for_check, ma_for_check,
            is_up, slope_perc, up_details, reason, passed>>
pipeline == <<config, file_idx, row_idx, pc, batch_date, results, aggregate, warnings, errors, locals>>
\* the calls of append_history_batch still to come, the argument of the last
\* call, the history file and the frame the last call returned
history == <<pending_batches, result_df, history_file, history_df>>
\* the frame make_arrow_safe is applied to, the frame before its last pass,
\* the passes made, and whether DataFrame.replace downcasts in this pandas
sanitizer == <<arrow_df, arrow_prev, arrow_passes, replace_downcasts>>
\* the raw grid of a sheet and the two header parameters; the labels and the
\* data rows lines 358-385 make of them
reader == <<df_raw, header_rows, skip_rows, read_columns, read_rows, read_done>>
\* the argument and the result of extract_date_from_column_name
extractor == <<column_name, date_match, searched>>
helpers == <<history, sanitizer, reader, extractor>>
vars == <<pipeline, helpers>>

\* the df of the file being processed, as it stands after reading and cleaning
df == uploaded_files[file_idx]

\* state after the declarations of lines 349-353 (the upload is not empty:
\* lines 344-346 stop the script otherwise), for the given inputs
NoHistory ==
    /\ pending_batches = <<>>
    /\ result_df = <<>>
    /\ history_file = NoFile
    /\ history_df = <<>>

NoSanitizer ==
    /\ arrow_df = <<>>
    /\ arrow_prev = <<>>
    /\ arrow_passes = 0
    /\ replace_downcasts = FALSE

NoReader ==
    /\ df_raw = <<>>
    /\ header_rows = 1
    /\ skip_rows = 0
    /\ read_columns = <<>>
    /\ read_rows = <<>>
    /\ read_done = FALSE

NoExtractor ==
    /\ column_name = <<>>
    /\ date_match = NoDate
    /\ searched = FALSE

\* no helper function has been called
NoHelpers == NoHistory /\ NoSanitizer /\ NoReader /\ NoExtractor

InitPipeline(files, mode, cd, thr) ==
    /\ uploaded_files = files
    /\ up_trend_mode = mode
    /\ close_days = cd
    /\ slope_threshold = thr
    /\ file_idx = 0
    /\ row_idx = 0
    /\ pc = "next_file"
    /\ batch_date = 0
    /\ all_batch_dates = <<>>
    /\ daily_dfs = <<>>
    /\ results = <<>>
    /\ all_results = <<>>
    /\ stock_trends = <<>>
    /\ stock_concepts = <<>>
    /\ warnings = <<>>
    /\ errors = <<>>
    /\ code = ""
    /\ concept = <<>>
    /\ closes = <<>>
    /\ ma_values = <<>>
    /\ closes_for_check = <<>>
    /\ ma_for_check = <<>>
    /\ is_up = FALSE
    /\ slope_perc = NaN
    /\ up_details = Trace(<<>>)
    /\ reason = <<>>
    /\ passed = FALSE

InitWith(files, mode, cd, thr) == NoHelpers /\ InitPipeline(files, mode, cd, thr)

\* ---------------------------------------------------------------- actions
\* the failed file is still given the fallback batch date
ReadFailRecorded ==
    /\ pc = "next_file"
    /\ file_idx < Len(uploaded_files)
    /\ ~uploaded_files[file_idx + 1].ok
    /\ file_idx' = file_idx + 1
    /\ errors' = Append(errors, file_idx + 1)
    /\ all_batch_dates' = Append(all_batch_dates, Today)
    /\ UNCHANGED <<helpers, config, row_idx, pc, batch_date, results, daily_dfs, all_results,
                   stock_trends, stock_concepts, warnings, locals>>

\* lines 357-389: reading the file raises; st.error, continue
ReadFail ==
    /\ pc = "next_file"
    /\ file_idx < Len(uploaded_files)
    /\ ~uploaded_files[file_idx + 1].ok
    /\ file_idx' = file_idx + 1
    /\ errors' = Append(errors, file_idx + 1)
    /\ UNCHANGED <<helpers, config, row_idx, pc, batch_date, results, aggregate, warnings, locals>>

\* lines 357-459: read, clean, classify the columns, derive the batch date
StartFile ==
    /\ pc = "next_file"
    /\ file_idx < Len(uploaded_files)
    /\ uploaded_files[file_idx + 1].ok
    /\ LET f == uploaded_files[file_idx + 1]
           bd == BatchDate(f.columns)
       IN /\ batch_date' = bd.date
          /\ warnings' = IF bd.warn THEN Append(warnings, file_idx + 1) ELSE warnings
          /\ all_batch_dates' = Append(all_batch_dates, bd.date)
          /\ daily_dfs' = [d \in DOMAIN daily_dfs \cup {bd.date} |->
                              IF d = bd.date THEN file_idx + 1 ELSE daily_dfs[d]]
    /\ file_idx' = file_idx + 1
    /\ row_idx' = 0
    /\ results' = <<>>
    /\ pc' = "rows"
    /\ UNCHANGED <<helpers, config, all_results, stock_trends, stock_concepts, errors, locals>>

\* lines 460-570: one iteration of the loop over the rows
ProcessRow ==
    /\ pc = "rows"
    /\ row_idx < Len(df.rows)
    /\ LET row == df.rows[row_idx + 1]
           cl == Extract(Pick(row.cells, close_cols(df.columns)))
           ma == MaSeries(Pick(row.cells, ma_cols(df.columns)), cl)
           w == Windowing(cl, ma, up_trend_mode, close_days)
           rs == Reasons(w.is_up, w.up_details, w.slope_perc, slope_threshold)
           cc == RowConcept(df.columns, row.cells)
       IN /\ code' = row.code
          /\ concept' = cc
          /\ stock_concepts' = SetConcept(stock_concepts, row.code, cc)
          /\ closes' = cl
          /\ ma_values' = ma
          /\ closes_for_check' = w.closes_for_check
          /\ ma_for_check' = w.ma_for_check
          /\ is_up' = w.is_up
          /\ slope_perc' = w.slope_perc
          /\ up_details' = w.up_details
          /\ reason' = rs
          /\ passed' = (Len(rs) = 0)
          /\ results' = Append(results,
                 [date |-> batch_date, code |-> row.code, mode |-> up_trend_mode,
                  is_up |-> w.is_up, slope |-> w.slope_perc,
                  passed |-> (Len(rs) = 0), reason |-> rs])
          /\ stock_trends' = AppendTrend(stock_trends, row.code, <<batch_date, Len(rs) = 0>>)
    /\ row_idx' = row_idx + 1
    /\ UNCHANGED <<helpers, config, file_idx, pc, batch_date, all_batch_dates, daily_dfs, all_results,
                   warnings, errors>>

\* line 572: all_results.extend(results)
FinishFile ==
    /\ pc = "rows"
    /\ row_idx = Len(df.rows)
    /\ all_results' = all_results \o results
    /\ pc' = "next_file"
    /\ UNCHANGED <<helpers, config, file_idx, row_idx, batch_date, results, all_batch_dates, daily_dfs,
                   stock_trends, stock_concepts, warnings, errors, locals>>

\* line 575: all_batch_dates = sorted(set(all_batch_dates))
Finish ==
    /\ pc = "next_file"
    /\ file_idx = Len(uploaded_files)
    /\ all_batch_dates' = SortedSet(Range(all_batch_dates))
    /\ pc' = "done"
    /\ UNCHANGED <<helpers, config, file_idx, row_idx, batch_date, results, daily_dfs, all_results,
                   stock_trends, stock_concepts, warnings, errors, locals>>

Next == ReadFail \/ StartFile \/ ProcessRow \/ FinishFile \/ Finish

\* ----------------------------------------------------------------- inputs
Modes == {"strict", "ma_above"}
CloseDaysSet == MinCloseDays..MaxCloseDays
ThresholdDefault == 10
Thresholds == {ThresholdDefault \div 2, ThresholdDefault}

SeqsUpTo(S, n) == UNION {[1..k -> S] : k \in 0..n}

FirstDay == 2024 * 10000 + 101
PriceLabel(i) == <<Word("shoupanjia"), DateSeg("dot", FirstDay + i, FALSE)>>
MaLabel(i) == <<Word("junxian"), DateSeg("dot", FirstDay + i, FALSE)>>

Unreadable == [ok |-> FALSE, columns |-> <<>>, rows |-> <<>>]

\* a batch of one row: its price cells, then its moving-average cells
OneRowFile(pcells, mcells) ==
    [ok |-> TRUE,
     columns |-> [i \in 1..Len(pcells) |-> PriceLabel(Len(pcells) - i)]
                 \o [i \in 1..Len(mcells) |-> MaLabel(Len(mcells) - i)],
     rows |-> <<[code |-> "000001", cells |-> pcells \o mcells]>>]

PriceVals == {1, 100, 101}
RowPriceCells == {InfCell} \cup {Num(v) : v \in PriceVals}
RowMaCells == {NA, Num(100)}

RowFiles ==
    {<<Unreadable>>}
    \cup {<<OneRowFile(pcells, mcells)>> :
             pcells \in SeqsUpTo(RowPriceCells, MaxPriceCols),
             mcells \in SeqsUpTo(RowMaCells, MaxMaCols)}

\* classification of one row, over the modes, windows and thresholds
InitRow ==
    \E files \in RowFiles, mode \in Modes, cd \in CloseDaysSet, thr \in Thresholds :
        InitWith(files, mode, cd, thr)

SpecRow == InitRow /\ [][Next]_vars

\* the series builder, over missing, non-positive, unparseable and glyph cells
BuildPriceCells == {NA, Num(0), Num(1), Txt(<<"x">>), Txt(<<"E", "2">>)}
BuildMaCells == {NA, Num(1), Txt(<<"E", "2">>)}

BuildFiles ==
    {<<Unreadable>>}
    \cup {<<OneRowFile(pcells, mcells)>> :
             pcells \in SeqsUpTo(BuildPriceCells, MaxPriceCols),
             mcells \in SeqsUpTo(BuildMaCells, MaxMaCols)}

InitBuild ==
    \E files \in BuildFiles :
        InitWith(files, "strict", MinCloseDays, ThresholdDefault)

SpecBuild == InitBuild /\ [][Next]_vars

\* the synthesized moving average, over series longer than MaDays
SynthPriceCells == {NA, Num(1), Num(100)}

SynthFiles ==
    {<<Unreadable>>}
    \cup {<<OneRowFile(pcells, mcells)>> :
             pcells \in SeqsUpTo(SynthPriceCells, MaxSynthCols),
             mcells \in {<<>>, <<NA>>, <<Num(100)>>}}

InitSynth ==
    \E files \in SynthFiles, mode \in Modes :
        InitWith(files, mode, MinCloseDays, ThresholdDefault)

SpecSynth == InitSynth /\ [][Next]_vars

\* the batch date, over the label shapes
DateFormats == BatchFormats \cup {"cn", "text"}
DateLabels ==
    {<<Word("shoupanjia"), DateSeg(fmt, FirstDay + i, sfx)>> :
        fmt \in DateFormats, i \in {1, 2}, sfx \in BOOLEAN}
    \cup {<<Glued("shoupanjia", "dot", FirstDay + 3)>>,
          <<DateSeg("dot", FirstDay + 3, FALSE), Word("shoupanjia")>>,
          <<Word("junxian"), DateSeg("dot", FirstDay + 3, FALSE)>>}

DateFile(labels) ==
    [ok |-> TRUE, columns |-> labels,
     rows |-> <<[code |-> "000001", cells |-> [i \in 1..Len(labels) |-> Num(1)]]>>]

DateFiles ==
    {<<Unreadable>>} \cup {<<DateFile(labels)>> : labels \in SeqsUpTo(DateLabels, MaxDateCols)}

InitDate ==
    \E files \in DateFiles :
        InitWith(files, "strict", MinCloseDays, ThresholdDefault)

SpecDate == InitDate /\ [][Next]_vars

\* several batches of several rows
Codes == {"000001", "600000"}
PipeCells ==
    {<<Num(101), Num(100), NA>>,
     <<Num(100), Num(101), Txt(<<"A">>)>>}
PipeRows == {[code |-> c, cells |-> cells] : c \in Codes, cells \in PipeCells}

PipeColumns ==
    {<<PriceLabel(2), PriceLabel(1), concept_col_name>>,
     <<PriceLabel(1), PriceLabel(0), <<Word("gainian")>>>>,
     <<<<Word("close")>>, <<Word("close")>>, <<Word("other")>>>>}

\* the readable files of exactly n rows
PipeFiles(n) ==
    {[ok |-> TRUE, columns |-> cols, rows |-> rows] : cols \in PipeColumns, rows \in [1..n -> PipeRows]}

\* the uploads of at most k files holding at most t rows in all
RECURSIVE Uploads(_, _)
Uploads(k, t) ==
    IF k = 0 THEN {<<>>}
    ELSE {<<>>}
         \cup {<<Unreadable>> \o rest : rest \in Uploads(k - 1, t)}
         \cup UNION {{<<f>> \o rest : f \in PipeFiles(n), rest \in Uploads(k - 1, t - n)} : n \in 0..t}

Init ==
    \E files \in Uploads(MaxFiles, MaxTotalRows) \ {<<>>} :
        InitWith(files, "strict", MinCloseDays, ThresholdDefault \div 2)

Spec == Init /\ [][Next]_vars

\* ------------------------------------------------------------ history spec
\* one call of append_history_batch, on the next batch of results
AppendHistoryBatch ==
    /\ pending_batches # <<>>
    /\ LET r == append_history_batch(Head(pending_batches), history_file)
       IN /\ history_file' = r.file
          /\ history_df' = r.history_df
    /\ result_df' = Head(pending_batches)
    /\ pending_batches' = Tail(pending_batches)
    /\ UNCHANGED <<pipeline, sanitizer, reader, extractor>>

NextHistory == AppendHistoryBatch

\* the script stopped at line 346: nothing was uploaded
Stopped == InitPipeline(<<>>, "strict", MinCloseDays, ThresholdDefault)

Day(i) == FirstDay + i
Code000001 == <<"0", "0", "0", "0", "0", "1">>
CodeNan == <<"n", "a", "n">>

\* result rows: two slopes for a key, a code that str() made of a missing
\* cell, a second date
HistoryRows ==
    {[date |-> Day(0), code |-> Txt(c), slope |-> Num(v)] : c \in {Code000001, CodeNan}, v \in {1, 2}}
    \cup {[date |-> Day(1), code |-> Txt(Code000001), slope |-> NA]}

\* the sequences of non-empty batches holding t rows in all
RECURSIVE BatchSeqs(_)
BatchSeqs(t) ==
    IF t = 0 THEN {<<>>}
    ELSE UNION {{<<b>> \o rest : b \in [1..n -> HistoryRows], rest \in BatchSeqs(t - n)} : n \in 1..t}

InitHistory ==
    /\ Stopped
    /\ pending_batches \in UNION {BatchSeqs(t) : t \in 0..MaxHistoryRows}
    /\ result_df = <<>>
    /\ history_file = NoFile
    /\ history_df = <<>>
    /\ NoSanitizer /\ NoReader /\ NoExtractor

SpecHistory == InitHistory /\ [][NextHistory]_vars

\* ---------------------------------------------------------- sanitizer spec
\* one pass of make_arrow_safe over the frame the last pass left
MakeArrowSafe ==
    /\ arrow_passes < MaxPasses
    /\ arrow_prev' = arrow_df
    /\ arrow_df' = make_arrow_safe(arrow_df, replace_downcasts)
    /\ arrow_passes' = arrow_passes + 1
    /\ UNCHANGED <<pipeline, history, replace_downcasts, reader, extractor>>

NextSanitizer == MakeArrowSafe

\* raw cells: missing, a float, texts, markers bare and between blanks
ArrowCells ==
    {NA, Num(1), Txt(<<"A">>), Txt(<<" ", "A">>), Txt(<<"1">>), Txt(<<"-">>),
     Txt(<<" ", "-", " ">>), Txt(<<"n", "a", "n">>), Txt(<<"N", "o", "n", "e", " ">>)}

ArrowFrames ==
    {<<[hint |-> h, cells |-> cells]>> :
        h \in BOOLEAN, cells \in UNION {[1..n -> ArrowCells] : n \in 1..MaxArrowCells}}

InitSanitizer ==
    /\ Stopped
    /\ NoHistory /\ NoReader /\ NoExtractor
    /\ arrow_df \in ArrowFrames
    /\ arrow_prev = <<>>
    /\ arrow_passes = 0
    /\ replace_downcasts \in BOOLEAN

SpecSanitizer == InitSanitizer /\ [][NextSanitizer]_vars

\* ------------------------------------------------------------ reader spec
\* lines 358-385 on the sheet of one file
ReadExcelStep ==
    /\ ~read_done
    /\ LET r == ReadExcel(df_raw, header_rows, skip_rows)
       IN /\ read_columns' = r.columns
          /\ read_rows' = r.rows
    /\ read_done' = TRUE
    /\ UNCHANGED <<pipeline, history, sanitizer, df_raw, header_rows, skip_rows, extractor>>

NextReader == ReadExcelStep

\* cells of a row of group names, of a row of dates
GroupCells ==
    {GNA, GText(<<Word("shoupanjia")>>, FALSE), GText(<<Word("5rijunxian")>>, TRUE),
     GText(<<Word("undefined")>>, FALSE)}
DateCells == {GNA} \cup {GText(<<DateSeg("dot", Day(i), FALSE)>>, FALSE) : i \in {1, 2}}

\* a row of data: the same number in every cell
DataRow(n) == [j \in 1..MaxGridCols |-> GNum(n)]

\* sheets: a row of group names, a row of dates, two rows of data
Grids ==
    {<<g, d, DataRow(1), DataRow(2)>> :
        g \in [1..MaxGridCols -> GroupCells], d \in [1..MaxGridCols -> DateCells]}

\* the sheet of six columns: a price group and a moving-average group of
\* three dates each, the group named in the first cell of its block
GroupBlock(w) == <<GText(<<Word(w)>>, FALSE), GNA, GNA>>
DateBlock == [i \in 1..3 |-> GText(<<DateSeg("dot", Day(i), FALSE)>>, FALSE)]
SixColumns ==
    <<GroupBlock("shoupanjia") \o GroupBlock("5rijunxian"), DateBlock \o DateBlock,
      [j \in 1..6 |-> GNum(1)]>>

InitReader ==
    /\ Stopped
    /\ NoHistory /\ NoSanitizer /\ NoExtractor
    /\ df_raw \in Grids \cup {SixColumns}
    /\ header_rows \in 1..MaxHeaderRows
    /\ skip_rows \in 0..MaxSkipRows
    /\ read_columns = <<>>
    /\ read_rows = <<>>
    /\ read_done = FALSE

SpecReader == InitReader /\ [][NextReader]_vars

\* ------------------------------------------------------------- guard spec
\* rows with zero and negative cells, as numbers and as text, in both modes
GuardPriceCells == {Num(0), Num(0 - 1), Num(1), Num(2), Txt(<<"-", "1">>)}
GuardMaCells == {Num(0), Num(1)}

GuardFiles ==
    {<<Unreadable>>}
    \cup {<<OneRowFile(pcells, mcells)>> :
             pcells \in SeqsUpTo(GuardPriceCells, MaxPriceCols),
             mcells \in SeqsUpTo(GuardMaCells, MaxMaCols)}

InitGuard ==
    \E files \in GuardFiles, mode \in Modes, cd \in CloseDaysSet :
        InitWith(files, mode, cd, ThresholdDefault)

SpecGuard == InitGuard /\ [][Next]_vars

\* --------------------------------------------------------- extractor spec
ExtractDate ==
    /\ ~searched
    /\ date_match' = extract_date_from_column_name(column_name)
    /\ searched' = TRUE
    /\ UNCHANGED <<pipeline, history, sanitizer, reader, column_name>>

NextExtractor == ExtractDate

\* parts of a name: the five date shapes, a long run before a dashed tail,
\* shapes that are no date, a word
NameParts ==
    {<<Dg(4, 1), Sym("."), Dg(2, 1), Sym("."), Dg(2, 1)>>,
     <<Dg(4, 2), Sym("-"), Dg(1, 2), Sym("-"), Dg(2, 2)>>,
     <<Dg(4, 3), Sym("/"), Dg(2, 3), Sym("/"), Dg(4, 3)>>,
     <<Dg(8, 4)>>,
     <<Dg(4, 5), Sym("nian"), Dg(1, 5), Sym("yue"), Dg(2, 5), Sym("ri")>>,
     <<Dg(8, 6), Sym("-"), Dg(2, 6), Sym("-"), Dg(2, 6)>>,
     <<Dg(4, 7), Sym("."), Dg(4, 7), Sym("."), Dg(2, 7)>>,
     <<Dg(4, 8), Sym("."), Dg(2, 8), Sym("-"), Dg(2, 8)>>,
     <<Dg(2, 9), Sym("-"), Dg(2, 9)>>,
     <<Sym("x")>>}

\* the parts, '_' between them
RECURSIVE JoinParts(_)
JoinParts(parts) ==
    IF parts = <<>> THEN <<>>
    ELSE IF Len(parts) = 1 THEN parts[1]
    ELSE parts[1] \o <<Sym("_")>> \o JoinParts(Tail(parts))

ColumnNames == {JoinParts(parts) : parts \in SeqsUpTo(NameParts, MaxNameParts)}

InitExtractor ==
    /\ Stopped
    /\ NoHistory /\ NoSanitizer /\ NoReader
    /\ column_name \in ColumnNames
    /\ date_match = NoDate
    /\ searched = FALSE

SpecExtractor == InitExtractor /\ [][NextExtractor]_vars

\* ================================================================= claims
\* the locals hold the outcome of row row_idx of file file_idx
Processed == row_idx > 0
CurRow == df.rows[row_idx]
PriceCellsOfRow == Pick(CurRow.cells, close_cols(df.columns))
MaCellsOfRow == Pick(CurRow.cells, ma_cols(df.columns))
Emitted == Range(results) \cup Range(all_results)
LastRecord == results[Len(results)]
SlopeOk(sl, thr) == ~isnan(sl) /\ ~FracLess(sl, thr)

\* C1: every emitted record has passed = TRUE if and only if is_up is TRUE and
\* the slope is defined and the slope is at least slope_threshold; a record
\* with an undefined slope is never passed.
C1_PassedIff ==
    \A r \in Emitted : r.passed <=> (r.is_up /\ SlopeOk(r.slope, slope_threshold))

\* C2: a row is classified as insufficient data exactly when it has fewer than
\* close_days closes or, in ma_above mode only, fewer than close_days
\* moving-average values; in strict mode a row with close_days closes gets
\* the strict predicate and a slope whatever its moving-average count.
C2_WindowingByMode ==
    Processed =>
        /\ (up_details.kind = "insufficient") <=>
               (\/ Len(closes) < close_days
                \/ (up_trend_mode = "ma_above" /\ Len(ma_values) < close_days))
        /\ (up_trend_mode = "strict" /\ Len(closes) >= close_days) =>
               (/\ ~isnan(slope_perc) \/ HasInf(closes_for_check)
                /\ is_up = check_strict_continuous_up(LastN(closes, close_days), close_days).is_up)

\* C3: a row with fewer than close_days closes is a normal outcome: it emits
\* a record with is_up = FALSE, slope undefined, passed = FALSE and exactly
\* one reason, which names the count got and the count needed, got < needed;
\* no slope reason is added.
C3_InsufficientHistory ==
    (Processed /\ Len(closes) < close_days) =>
        /\ ~is_up /\ isnan(slope_perc) /\ ~passed
        /\ Len(reason) = 1
        /\ reason[1].kind = "insufficient"
        /\ reason[1].got = Len(closes)
        /\ reason[1].need = close_days
        /\ reason[1].got < reason[1].need
        /\ Len(results) = row_idx
        /\ LastRecord.is_up = FALSE /\ isnan(LastRecord.slope) /\ ~LastRecord.passed
        /\ LastRecord.reason = reason

C3_Witness ==
    /\ Processed /\ Len(closes) > 0 /\ Len(closes) < close_days
    /\ Len(reason) = 1 /\ reason[1].got = Len(closes) /\ ~passed

\* C4: in strict mode, over a window of exactly close_days positive closes,
\* is_up is TRUE if and only if every close of the window is greater than the
\* one before it; the closes before the window have no influence.
C4_StrictPredicate ==
    (Processed /\ up_trend_mode = "strict"
       /\ Len(closes) >= close_days /\ Len(ma_values) >= close_days) =>
        LET n == Len(closes)
        IN /\ Len(closes_for_check) = close_days
           /\ \A i \in 1..close_days : closes_for_check[i] = closes[n - close_days + i]
           /\ \A i \in 1..close_days : closes_for_check[i] > 0
           /\ is_up <=> \A i \in (n - close_days + 2)..n : closes[i] > closes[i - 1]

\* an equal day in the window of a series longer than the window
C4_Witness ==
    /\ Processed /\ up_trend_mode = "strict"
    /\ Len(closes) > close_days /\ Len(ma_values) >= close_days
    /\ closes[Len(closes)] = closes[Len(closes) - 1]
    /\ closes[1] < closes[2]
    /\ ~is_up

\* C5: in ma_above mode is_up is TRUE if and only if, for every k below
\* close_days, the k-th most recent close is at least the k-th most recent
\* moving-average value (equality passes).
C5_MaAbovePredicate ==
    (Processed /\ up_trend_mode = "ma_above"
       /\ Len(closes) >= close_days /\ Len(ma_values) >= close_days) =>
        /\ Len(closes_for_check) = close_days
        /\ Len(ma_for_check) = close_days
        /\ is_up <=> \A k \in 0..(close_days - 1) :
                        closes[Len(closes) - k] >= ma_values[Len(ma_values) - k]

\* supplied moving averages, fewer than the closes, one of them equal to its close
C5_Witness ==
    /\ Processed /\ up_trend_mode = "ma_above"
    /\ Len(MaCellsOfRow) > 0
    /\ Len(ma_values) >= close_days /\ Len(closes) > Len(ma_values)
    /\ closes[Len(closes)] = ma_values[Len(ma_values)]
    /\ is_up

IsDetails(e) == e.kind \in {"insufficient", "invalid_price", "trace"}

\* C6: the reason list holds the predicate's failure text if and only if is_up
\* is FALSE, and a slope-too-small reason if and only if the slope is defined
\* and below the threshold; an undefined slope adds nothing; is_up with a
\* slope at or above the threshold leaves the list empty.
C6_ReasonAccumulation ==
    Processed =>
        /\ (\E i \in 1..Len(reason) : IsDetails(reason[i]) /\ reason[i] = up_details) <=> ~is_up
        /\ (\E i \in 1..Len(reason) : reason[i].kind = "slope_small")
               <=> (~isnan(slope_perc) /\ FracLess(slope_perc, slope_threshold))
        /\ Cardinality({i \in 1..Len(reason) : IsDetails(reason[i])}) <= 1
        /\ Cardinality({i \in 1..Len(reason) : reason[i].kind = "slope_small"}) <= 1
        /\ (is_up /\ SlopeOk(slope_perc, slope_threshold)) => reason = <<>>
        /\ LastRecord.reason = reason

\* both reasons together
C6_Witness ==
    /\ Processed /\ Len(reason) = 2
    /\ reason[1].kind = "trace" /\ reason[2].kind = "slope_small"

CellNumber(c) ==
    CASE c.k = "num" -> [ok |-> TRUE, v |-> c.v]
      [] c.k = "inf" -> [ok |-> TRUE, v |-> Inf \div Scale]
      [] c.k = "str" -> ParseFloat(CleanStr(c.s))
      [] OTHER -> [ok |-> FALSE, v |-> 0]
ValidCell(c) == CellNumber(c).ok /\ CellNumber(c).v > 0
IsReverseOfValid(series, cells) ==
    LET kept == SelectSeq(cells, ValidCell)
    IN /\ Len(series) = Len(kept)
       /\ Len(series) = Cardinality({i \in 1..Len(cells) : ValidCell(cells[i])})
       /\ \A i \in 1..Len(series) :
             /\ series[i] > 0
             /\ series[i] = Scale * CellNumber(kept[Len(kept) + 1 - i]).v

\* C7: closes is the reverse of the left-to-right sequence of the price cells
\* that are not missing and parse to a number above zero; the other cells are
\* dropped, so every element is positive and the length is the number of
\* valid cells.  The same holds of ma_values over the moving-average columns.
C7_SeriesBuilder ==
    Processed =>
        /\ IsReverseOfValid(closes, PriceCellsOfRow)
        /\ (MaCellsOfRow # <<>>) => IsReverseOfValid(ma_values, MaCellsOfRow)
        /\ Len(results) = row_idx

\* two different valid cells around a dropped one: newest first in the row,
\* oldest first in the series
C7_Witness ==
    /\ Processed
    /\ Len(PriceCellsOfRow) = 3 /\ Len(closes) = 2
    /\ ~ValidCell(PriceCellsOfRow[2])
    /\ closes[1] # closes[2]
    /\ closes[1] = Scale * CellNumber(PriceCellsOfRow[3]).v
    /\ MaCellsOfRow # <<>> /\ ma_values = <<>>

\* C8: without moving-average columns ma_values has the length of closes and
\* ma_values[i] is the mean of closes[max(0, i-w+1) .. i], w = min(5, len);
\* with moving-average columns nothing is synthesized.
C8_SynthesizedMa ==
    Processed =>
        /\ (MaCellsOfRow = <<>>) =>
              /\ Len(ma_values) = Len(closes)
              /\ \A i \in 1..Len(closes) :
                    LET w == IF Len(closes) < 5 THEN Len(closes) ELSE 5
                        lo == IF i - w + 1 > 1 THEN i - w + 1 ELSE 1
                    IN ma_values[i] * (i - lo + 1) = SumSeq(SubSeq(closes, lo, i))
        /\ (MaCellsOfRow # <<>>) => Len(ma_values) <= Len(MaCellsOfRow)
        /\ (MaCellsOfRow # <<>> /\ \A i \in 1..Len(MaCellsOfRow) : ~ValidCell(MaCellsOfRow[i]))
              => ma_values = <<>>

\* a series longer than the window, whose first close leaves the last mean
C8_Witness ==
    /\ Processed /\ MaCellsOfRow = <<>>
    /\ Len(closes) > MaDays
    /\ closes[1] # closes[2]
    /\ ma_values[Len(closes)] * Len(closes) # SumSeq(closes)

ParsedDates(columns) ==
    {columns[i][Len(columns[i])].date : i \in
        {j \in 1..Len(columns) :
            /\ IsPrice(columns[j])
            /\ Len(columns[j]) > 1
            /\ columns[j][Len(columns[j])].w = ""
            /\ columns[j][Len(columns[j])].fmt \in {"dot", "dash", "compact", "slash"}}}
Warned == \E i \in 1..Len(warnings) : warnings[i] = file_idx

\* C9: the batch date is the maximum of the dates parsed from the price
\* column labels (last '_' segment, " [" suffix stripped, four formats); the
\* fallback to the processing date, with a warning, is taken if and only if
\* no price label carries a parseable date; the batch goes on either way.
C9_BatchDate ==
    (file_idx > 0 /\ df.ok) =>
        LET P == ParsedDates(df.columns)
        IN /\ (P # {}) => (batch_date \in P /\ \A d \in P : d <= batch_date)
           /\ (P = {}) => batch_date = Today
           /\ Warned <=> (P = {})
           /\ all_batch_dates # <<>>
           /\ pc = "rows" => all_batch_dates[Len(all_batch_dates)] = batch_date
           /\ file_idx \notin Range(errors)

\* the later date stands in the second column, behind a suffix
C9_Witness ==
    /\ file_idx > 0 /\ df.ok /\ pc = "rows"
    /\ Cardinality(ParsedDates(df.columns)) = 2
    /\ df.columns[2][2].suffix
    /\ batch_date = df.columns[2][2].date
    /\ ~Warned

\* the rows processed so far, in processing order
RECURSIVE RowsOfFiles(_)
RowsOfFiles(k) ==
    IF k = 0 THEN <<>>
    ELSE RowsOfFiles(k - 1)
         \o (IF ~uploaded_files[k].ok THEN <<>>
             ELSE LET f == uploaded_files[k]
                      n == IF k = file_idx /\ pc = "rows" THEN row_idx ELSE Len(f.rows)
                  IN [i \in 1..n |-> [code |-> f.rows[i].code,
                                      concept |-> RowConcept(f.columns, f.rows[i].cells)]])
ProcessedRows == RowsOfFiles(file_idx)
FirstOf(c) == CHOOSE i \in 1..Len(ProcessedRows) :
                 /\ ProcessedRows[i].code = c
                 /\ \A j \in 1..(i - 1) : ProcessedRows[j].code # c

\* C10: the concept stored for a code is the one of the first row ever
\* processed for that code, and no later row or batch changes it.
C10_ConceptFirstSeen ==
    /\ DOMAIN stock_concepts = {ProcessedRows[i].code : i \in 1..Len(ProcessedRows)}
    /\ \A c \in DOMAIN stock_concepts : stock_concepts[c] = ProcessedRows[FirstOf(c)].concept

\* the fallback was stored first; a later batch carries a real concept
C10_Witness ==
    /\ pc = "done"
    /\ \E c \in DOMAIN stock_concepts :
          /\ stock_concepts[c] = Unknown
          /\ \E i \in 1..Len(ProcessedRows) :
                /\ ProcessedRows[i].code = c
                /\ ProcessedRows[i].concept # Unknown
    /\ file_idx > 1

\* ------------------------------------------------- failure isolation (C11)
\* the record lines 556-565 emit for a row of a readable file
RecordOf(f, row) ==
    LET cl == Extract(Pick(row.cells, close_cols(f.columns)))
        ma == MaSeries(Pick(row.cells, ma_cols(f.columns)), cl)
        w == Windowing(cl, ma, up_trend_mode, close_days)
        rs == Reasons(w.is_up, w.up_details, w.slope_perc, slope_threshold)
    IN [date |-> BatchDate(f.columns).date, code |-> row.code, mode |-> up_trend_mode,
        is_up |-> w.is_up, slope |-> w.slope_perc, passed |-> (Len(rs) = 0), reason |-> rs]

\* the records of a sequence of readable files, file by file, row by row
RECURSIVE RecordsOf(_)
RecordsOf(files) ==
    IF files = <<>> THEN <<>>
    ELSE LET f == Head(files)
         IN [i \in 1..Len(f.rows) |-> RecordOf(f, f.rows[i])] \o RecordsOf(Tail(files))

Readable == SelectSeq(uploaded_files, LAMBDA f : f.ok)

\* the (date, passed) entries of a code among a sequence of records, in order
TrendOf(recs, c) ==
    LET mine == SelectSeq(recs, LAMBDA r : r.code = c)
    IN [i \in 1..Len(mine) |-> <<mine[i].date, mine[i].passed>>]

\* the last readable file deriving the batch date d
LastWithDate(d) ==
    LET fs == SelectSeq(Readable, LAMBDA f : BatchDate(f.columns).date = d)
    IN fs[Len(fs)]

FinalOfReadable ==
    LET recs == RecordsOf(Readable)
        dates == {BatchDate(Readable[i].columns).date : i \in 1..Len(Readable)}
    IN /\ all_results = recs
       /\ all_batch_dates = SortedSet(dates)
       /\ DOMAIN stock_trends = {recs[i].code : i \in 1..Len(recs)}
       /\ \A c \in DOMAIN stock_trends : stock_trends[c] = TrendOf(recs, c)
       /\ DOMAIN daily_dfs = dates
       /\ \A d \in dates : uploaded_files[daily_dfs[d]] = LastWithDate(d)
       /\ Range(errors) = {i \in 1..Len(uploaded_files) : ~uploaded_files[i].ok}

\* C11: a file whose read fails is skipped and leaves all_results,
\* all_batch_dates, stock_trends, stock_concepts and daily_dfs exactly as they
\* were; the remaining files are still processed, and the final result is the
\* one of processing only the readable files, in the same order.
C11_FailureIsolation ==
    /\ [][(file_idx' # file_idx /\ ~uploaded_files[file_idx'].ok) => UNCHANGED aggregate]_vars
    /\ [](pc = "done" => (file_idx = Len(uploaded_files) /\ FinalOfReadable))

\* an unreadable file stood before a readable one that emitted a record
C11_Witness ==
    /\ pc = "done"
    /\ ~uploaded_files[1].ok
    /\ Len(uploaded_files) > 1
    /\ all_results # <<>>
    /\ Len(errors) = 1

\* ----------------------------------------------------- trend history (C12)
\* the records emitted so far, in processing order
EmittedSeq == IF pc = "rows" THEN all_results \o results ELSE all_results

\* the rows of file k processed so far
RowsDone(k) == IF k = file_idx /\ pc = "rows" THEN row_idx ELSE Len(uploaded_files[k].rows)

\* the processed batches that contain the code
BatchesWith(c) ==
    {k \in 1..file_idx :
        /\ uploaded_files[k].ok
        /\ \E i \in 1..RowsDone(k) : uploaded_files[k].rows[i].code = c}

\* C12: stock_trends[code] holds exactly one (batch_date, passed) entry per
\* processed batch that contains the code, in processing order, each entry
\* carrying the date and passed value of the record emitted for that code in
\* that batch, so that the entries are as many as the emitted records.
C12_TrendHistory ==
    /\ DOMAIN stock_trends = {EmittedSeq[i].code : i \in 1..Len(EmittedSeq)}
    /\ \A c \in DOMAIN stock_trends :
          /\ stock_trends[c] = TrendOf(EmittedSeq, c)
          /\ Len(stock_trends[c]) = Cardinality(BatchesWith(c))

\* ---------------------------------------------------- history merge (C13)
\* the (date, code) key of a row of the history file, as it is read back
FileKey(r) == <<r.date, ReadCsvStr(r.code)>>
Keys(rows) == {FileKey(rows[i]) : i \in 1..Len(rows)}
WithKey(rows, k) == SelectSeq(rows, LAMBDA r : FileKey(r) = k)
LastWithKey(rows, k) == WithKey(rows, k)[Len(WithKey(rows, k))]

\* the batch of the last call, as its rows are written
Written(batch) == [i \in 1..Len(batch) |-> ToCsvRow(batch[i])]

\* C13: when a batch is merged into an existing history, every (date, code)
\* key of the batch ends up with the batch's row, every key present only in
\* the old history keeps its old row, and no key of either side is lost.
C13_LastWriteWins ==
    [][(history_file.exists /\ pending_batches' # pending_batches) =>
        LET old == history_file.rows
            new == Written(result_df')
            out == history_file'.rows
        IN /\ Keys(out) = Keys(old) \cup Keys(new)
           /\ \A k \in Keys(new) : WithKey(out, k) = <<LastWithKey(new, k)>>
           /\ \A k \in Keys(old) \ Keys(new) : WithKey(out, k) = <<LastWithKey(old, k)>>]_vars

\* C14: starting from no history file, after any sequence of calls of
\* append_history_batch the persisted history holds at most one row per
\* (date, code) key, also after the first call and when one batch holds a key
\* more than once.
C14_HistoryUnique ==
    history_file.exists =>
        \A i, j \in 1..Len(history_file.rows) :
            FileKey(history_file.rows[i]) = FileKey(history_file.rows[j]) => i = j

\* ------------------------------------------------------- sanitizer (C15)
MarkerCells(frame) ==
    {<<i, j>> \in (1..Len(frame)) \X (1..MaxArrowCells + 1) :
        /\ j <= Len(frame[i].cells)
        /\ frame[i].cells[j].k = "str"
        /\ frame[i].cells[j].s \in NullMarkers}

\* C15: make_arrow_safe is idempotent: a second pass returns the frame of the
\* first, and after one pass no cell holds a text of the null-marker set,
\* also when the raw cell was a marker between blanks.
C15_SanitizerIdempotent ==
    /\ arrow_passes >= 2 => arrow_df = arrow_prev
    /\ arrow_passes >= 1 => MarkerCells(arrow_df) = {}

\* --------------------------------------------------- record keys (C16)
IsPrefix(a, b) == Len(a) <= Len(b) /\ SubSeq(b, 1, Len(a)) = a

\* C16: all_results holds at most one record per (batch date, stock code),
\* for any uploads, two files of one batch date and a file listing a code on
\* two rows included; a record, once emitted, is never changed.
C16_RecordKeyUnique ==
    /\ [](\A i, j \in 1..Len(all_results) :
            (all_results[i].date = all_results[j].date
             /\ all_results[i].code = all_results[j].code) => i = j)
    /\ [][IsPrefix(all_results, all_results')]_vars

\* ---------------------------------------------- aggregation ordering (C17)
\* one iteration of the row loop; the steps into and out of the loop
RowStep == pc = "rows" /\ pc' = "rows" /\ row_idx' = row_idx + 1
EnterLoop == pc = "next_file" /\ pc' = "rows"
LeaveLoop == pc = "rows" /\ pc' = "next_file"

\* the map changed at most at the key c
OnlyAt(m, n, c) ==
    /\ DOMAIN n = DOMAIN m \cup {c}
    /\ \A x \in DOMAIN m \ {c} : n[x] = m[x]

\* C17 as stated: stock_trends, stock_concepts and daily_dfs are not modified
\* while the row loop of a batch runs; they are updated only after the loop
\* over all rows of the batch has completed.
C17_MapsAfterLoop ==
    [][RowStep => UNCHANGED <<stock_trends, stock_concepts, daily_dfs>>]_vars

\* C17 as amended: daily_dfs is set, at the batch date, before the row loop
\* starts; each iteration of the loop appends one entry to stock_trends at
\* the code of its row and sets stock_concepts at that code if it is absent,
\* and changes neither map at any other code, nor daily_dfs, nor all_results;
\* the step after the loop changes only all_results.
C17_MapsPerRow ==
    [][/\ EnterLoop =>
            /\ UNCHANGED <<stock_trends, stock_concepts, all_results>>
            /\ OnlyAt(daily_dfs, daily_dfs', batch_date')
            /\ daily_dfs'[batch_date'] = file_idx'
       /\ RowStep =>
            LET c == df.rows[row_idx'].code
            IN /\ UNCHANGED <<daily_dfs, all_results>>
               /\ OnlyAt(stock_trends, stock_trends', c)
               /\ OnlyAt(stock_concepts, stock_concepts', c)
               /\ stock_trends'[c] =
                     (IF c \in DOMAIN stock_trends THEN stock_trends[c] ELSE <<>>)
                     \o <<<<batch_date, passed'>>>>
               /\ c \in DOMAIN stock_concepts => stock_concepts'[c] = stock_concepts[c]
       /\ LeaveLoop =>
            /\ UNCHANGED <<stock_trends, stock_concepts, daily_dfs>>
            /\ all_results' = all_results \o results]_vars

\* inside the loop of a batch: a row is done, another is to come, and the
\* maps hold the batch and the done row while all_results does not
C17_Witness ==
    /\ pc = "rows"
    /\ 0 < row_idx /\ row_idx < Len(df.rows)
    /\ code \in DOMAIN stock_trends /\ code \in DOMAIN stock_concepts
    /\ stock_trends[code][Len(stock_trends[code])] = <<batch_date, passed>>
    /\ batch_date \in DOMAIN daily_dfs
    /\ Len(all_results) < Len(EmittedSeq)

\* ------------------------------------------------- header and skip (C18)
\* the labels a header of several rows gives, whatever follows it
LabelsOfFirst(n) == ReadMulti(SubSeq(df_raw, 1, n), n, 0).columns
RowsFrom(n) == SubSeq(df_raw, n, Len(df_raw))

\* C18 as stated: with header_rows = 1 the labels are the trimmed string
\* values of the first row of the raw grid and data starts at row
\* skip_rows + 1 (counting the first row as 0); with header_rows > 1 the
\* labels come from the first header_rows rows and data starts after
\* header_rows + skip_rows rows; skip_rows never changes the label rows.
C18_HeaderSkip ==
    read_done =>
        /\ header_rows = 1 =>
              /\ read_columns = [j \in 1..Len(df_raw[1]) |-> StrStrip(df_raw[1][j])]
              /\ read_rows = RowsFrom(skip_rows + 2)
        /\ header_rows > 1 =>
              /\ read_columns = LabelsOfFirst(header_rows)
              /\ read_rows = RowsFrom(header_rows + skip_rows + 1)

\* C18 as amended: with header_rows = 1 the first skip_rows rows are dropped
\* and the labels are made of the next row: the trimmed string value of a
\* cell, "Unnamed: i" for a blank cell, a ".k" suffix for a repeated one; data
\* starts at the row after it.  With header_rows > 1 the labels come from the
\* first header_rows rows and data starts after header_rows + skip_rows rows.
C18_HeaderAfterSkip ==
    read_done =>
        /\ header_rows = 1 =>
              LET h == df_raw[skip_rows + 1]
              IN /\ Len(read_columns) = Len(h)
                 /\ \A j \in 1..Len(h) :
                       read_columns[j] =
                          IF h[j].k = "nan" THEN Unnamed(j - 1)
                          ELSE IF \E i \in 1..(j - 1) : h[i] = h[j]
                               THEN Mangle(StrStrip(h[j]), Earlier(h, j))
                          ELSE StrStrip(h[j])
                 /\ read_rows = RowsFrom(skip_rows + 2)
        /\ header_rows > 1 =>
              /\ read_columns = LabelsOfFirst(header_rows)
              /\ read_rows = RowsFrom(header_rows + skip_rows + 1)

\* one row was skipped and the labels are the dates of the second row, not
\* the group names of the first
C18_Witness ==
    /\ read_done /\ header_rows = 1 /\ skip_rows = 1
    /\ read_columns[1] = <<DateSeg("dot", Day(1), FALSE)>>
    /\ read_columns[2] = <<DateSeg("dot", Day(2), FALSE)>>
    /\ df_raw[1][1].k = "str" /\ df_raw[1][2].k = "str" /\ df_raw[1][1] # df_raw[1][2]
    /\ read_rows = <<DataRow(1), DataRow(2)>>

\* ------------------------------------------------ multi-row header (C19)
\* the cell of header row i a blank cell at column j inherits: the nearest
\* cell to its left in the row that is not blank
Filled(i, j) ==
    LET S == {n \in 1..j : df_raw[i][n].k # "nan"}
    IN IF S = {} THEN GNA ELSE df_raw[i][CHOOSE n \in S : \A m \in S : m <= n]

\* the values collected for column j, top to bottom
Collected(j) ==
    LET present == SelectSeq(IndexSeq(header_rows), LAMBDA i : Filled(i, j).k # "nan")
    IN [n \in 1..Len(present) |-> StrStrip(Filled(present[n], j))]

IsGroupName(t) == HasWord(t, {"shoupanjia", "5rijunxian", "junxian"})

\* the prefix running at column j: the group of the nearest column, j or to
\* its left, whose first collected value names one
PrefixAt(j) ==
    LET S == {n \in 1..j : Collected(n) # <<>> /\ IsGroupName(Collected(n)[1])}
    IN IF S = {} THEN ""
       ELSE LET m == CHOOSE n \in S : \A x \in S : x <= n
            IN IF HasWord(Collected(m)[1], {"shoupanjia"}) THEN "shoupanjia" ELSE "5rijunxian"

GroupNames == {<<Word("shoupanjia")>>, <<Word("5rijunxian")>>}

\* C19: under a header whose first row names a group followed by blank cells
\* and whose last row holds one date per column, every column resolves to
\* '<group>_<date>' with its own date, a PRICE label under the price group
\* and a MOVING_AVERAGE label under the moving-average group; a column with
\* no header value resolves to the empty label; a label is prefix_datepart
\* only when the running prefix is set and the first collected value holds
\* "undefined", otherwise the '_'-join of the collected values.
C19_MultiRowHeader ==
    (read_done /\ header_rows > 1) =>
        /\ Len(read_columns) = Len(df_raw[1])
        /\ \A j \in 1..Len(df_raw[1]) :
              LET cs == Collected(j)
                  label == read_columns[j]
              IN /\ cs = <<>> => label = <<>>
                 /\ cs # <<>> =>
                       label = IF PrefixAt(j) # "" /\ HasWord(cs[1], {"undefined"})
                               THEN <<Word(PrefixAt(j))>> \o cs[Len(cs)]
                               ELSE JoinSegs(cs)
                 /\ (header_rows = 2 /\ Filled(1, j).text \in GroupNames /\ df_raw[2][j].k = "str") =>
                       /\ label = Filled(1, j).text \o df_raw[2][j].text
                       /\ IsPrice(label) <=> Filled(1, j).text = <<Word("shoupanjia")>>
                       /\ IsMa(label) <=> Filled(1, j).text = <<Word("5rijunxian")>>
                       /\ LabelDate(label) = <<df_raw[2][j].text[1].date>>

\* the sheet of six columns resolved to three PRICE and three
\* MOVING_AVERAGE labels, each with the date of its column
C19_Witness ==
    /\ read_done /\ header_rows = 2 /\ df_raw = SixColumns
    /\ \A j \in 1..3 :
          /\ read_columns[j] = <<Word("shoupanjia"), DateSeg("dot", Day(j), FALSE)>>
          /\ read_columns[j + 3] = <<Word("5rijunxian"), DateSeg("dot", Day(j), FALSE)>>
    /\ Cardinality({j \in 1..6 : IsPrice(read_columns[j])}) = 3
    /\ Cardinality({j \in 1..6 : IsMa(read_columns[j])}) = 3

\* ------------------------------------------------- date extraction (C20)
\* the patterns that match somewhere in the name, by their priority
Occurring == {n \in 1..Len(DatePatterns) :
                 \E i \in 1..Len(column_name) : MatchAt(column_name, i, DatePatterns[n])}
Priority(pattern) == CHOOSE n \in 1..5 : <<"dot", "dash", "slash", "eight", "cn">>[n] = pattern

\* C20: extract_date_from_column_name returns the match of the
\* highest-priority pattern that occurs anywhere in the label, in the order
\* dotted, dashed, slashed, eight digits, Chinese, wherever the matches
\* stand; it returns none iff no pattern matches; a label holding a dashed
\* date and a run of eight digits returns the dashed date.
C20_DatePriority ==
    searched =>
        /\ date_match.found <=> Occurring # {}
        /\ ~date_match.found => date_match = NoDate
        /\ date_match.found =>
              /\ \A n \in Occurring : Priority(date_match.pattern) <= n
              /\ \E i \in 1..Len(column_name) :
                    /\ MatchAt(column_name, i, date_match.pattern)
                    /\ date_match.text = MatchText(column_name, i, date_match.pattern)
        /\ (Occurring # {} /\ Occurring \subseteq {Priority("dash"), Priority("eight"), Priority("cn")}
            /\ Priority("dash") \in Occurring) =>
              /\ date_match.pattern = "dash"
              /\ date_match.text[2] = Sym("-")

\* the run of eight digits stands before the dashed date, which is returned
C20_Witness ==
    /\ searched
    /\ Len(column_name) > 0 /\ column_name[1] = Dg(8, 4)
    /\ Priority("dash") \in Occurring /\ Priority("eight") \in Occurring
    /\ date_match = Found("dash", <<Dg(4, 2), Sym("-"), Dg(1, 2), Sym("-"), Dg(2, 2)>>)

\* ------------------------------------------- strict and loose modes (C21)
\* a row of a batch without moving-average columns has been classified in
\* the strict mode
StrictRowDone ==
    /\ pc = "rows" /\ row_idx > 0
    /\ ma_cols(df.columns) = <<>>
    /\ up_trend_mode = "strict"

\* is_up of the same row in the other mode, same close_days; ma_values is
\* the synthesized series, which line 521 builds in either mode
LooseIsUp == Windowing(closes, ma_values, "ma_above", close_days).is_up

WholeSeriesIncreasing == \A i \in 2..Len(closes) : closes[i] > closes[i - 1]

\* C21 as stated: without moving-average columns, a row that is is_up in
\* the strict mode is is_up in the ma_above mode with the same close_days.
C21_LooseWeaker == (StrictRowDone /\ is_up) => LooseIsUp

\* C21: without moving-average columns, a row that is is_up in the strict
\* mode and whose whole series of closes is strictly increasing (as it is
\* when the row has exactly close_days closes) is is_up in the ma_above mode
\* with the same close_days.
C21_LooseWeakerWholeSeries ==
    (StrictRowDone /\ is_up /\ WholeSeriesIncreasing) => LooseIsUp

\* three increasing closes, the window being the last two
C21_Witness ==
    /\ StrictRowDone /\ is_up /\ WholeSeriesIncreasing
    /\ Len(closes) > close_days
    /\ ma_for_check # closes_for_check
    /\ LooseIsUp

\* ------------------------------------------------- validity guard (C22)
\* the first reason of a record says the data were insufficient or shows a
\* comparison that failed
DataOrComparison(r) ==
    /\ r.reason # <<>>
    /\ \/ r.reason[1].kind = "insufficient"
       \/ /\ r.reason[1].kind = "trace"
          /\ \E k \in 1..Len(r.reason[1].flags) : ~r.reason[1].flags[k]

\* C22: no record of the pipeline carries the invalid-price reason, in
\* either mode; a record with is_up false has an insufficient-data reason or
\* the trace of a failed comparison.
C22_GuardUnreachable ==
    \A i \in 1..Len(EmittedSeq) :
        LET r == EmittedSeq[i]
        IN /\ \A j \in 1..Len(r.reason) : r.reason[j] # InvalidPrice
           /\ ~r.is_up => DataOrComparison(r)

\* a row with a zero or negative price cell, enough closes left for the
\* window, classified in the ma_above mode by its comparisons
C22_Witness ==
    /\ pc = "rows" /\ row_idx > 0
    /\ up_trend_mode = "ma_above"
    /\ \E j \in 1..Len(df.rows[row_idx].cells) :
          /\ IsPrice(df.columns[j])
          /\ df.rows[row_idx].cells[j] \in {Num(0), Num(0 - 1), Txt(<<"-", "1">>)}
    /\ Len(closes) >= close_days /\ Len(ma_values) >= close_days
    /\ Len(results) > 0
    /\ ~results[Len(results)].is_up
    /\ results[Len(results)].reason[1].kind = "trace"

====
